---- MODULE Spec2Model ----
(***************************************************************************)
(* Model of the `irc` factory of src/ng/providers/irc.provider.js: three   *)
(* tmi.js clients (read, write, whisper) created and destroyed on          *)
(* credential changes, channel synchronisation, bad login handling and     *)
(* rebroadcast of the clients' events on the factory's own emitter `ee`.   *)
(*                                                                         *)
(* Every action is one task of the JavaScript event loop, run to           *)
(* completion: the callback itself, the process.nextTick $apply it         *)
(* schedules (an angular digest running the three watchers) and the        *)
(* delivery of the Object.observe change records queued during the task.  *)
(***************************************************************************)
EXTENDS Integers, Sequences, FiniteSets, TLC

\* ---------------------------------------------------------------- bounds
\* longest run of transport 'disconnected' notifications on one read client
MaxRun == 3
\* most outward 'disconnected' events counted between two outward 'connected'
MaxGap == 3

\* ------------------------------------------------------------ input sets
Channels == {"a", "b", "c"}
Usernames == {"", "bob"}
Passwords == {"", "x"}
LoginUnsuccessful == "Login unsuccessful."
Reasons == {LoginUnsuccessful, "Login unsuccessful", "Connection closed."}
\* the value `false` of ee.badLogin (the field holds false or a reason string)
FalseVal == "false"

Roles == <<"read", "write", "whisper">>
RoleSet == {"read", "write", "whisper"}

readEvents ==
    <<"action", "chat", "clearchat", "connected", "connecting", "crash",
      "hosted", "hosting", "slowmode", "subanniversary",
      "subscriber", "subscription", "timeout", "unhost">>

EventNames == {readEvents[i] : i \in DOMAIN readEvents} \cup {"whisper", "disconnected"}

\* --------------------------------------------------------------- helpers
Range(s) == {s[i] : i \in DOMAIN s}

\* Array.prototype.indexOf(x) === -1
NotIn(s, x) == \A i \in DOMAIN s : s[i] # x

\* Array.prototype.splice(i, 1)
Splice(s, i) == [j \in 1..(Len(s) - 1) |-> IF j < i THEN s[j] ELSE s[j + 1]]

\* the first occurrence of listener l removed (EventEmitter.removeListener)
RemoveListener(s, l) ==
    IF NotIn(s, l) THEN s
    ELSE LET i == CHOOSE k \in DOMAIN s : s[k] = l /\ \A j \in 1..(k - 1) : s[j] # l
         IN  Splice(s, i)

\* sequences over S without repetition
DistinctSeqs(S) ==
    UNION {{s \in [1..n -> S] : \A i, j \in 1..n : i # j => s[i] # s[j]} :
           n \in 0..Cardinality(S)}

NoListeners == [e \in EventNames |-> <<>>]

\* a slot of `clients` holding null
NullClient ==
    [live |-> FALSE, tcCurrentChannels |-> <<>>, connectCalls |-> 0,
     listeners |-> NoListeners]

clientsInit == [k \in RoleSet |-> NullClient]

\* one entry of the record of calls made during a task: the call, the client
\* role (or event name, or throwing function) it is made on, its argument and
\* the value of ee.ready at that moment
Call(m, op, role, arg) ==
    [op |-> op, on |-> role, arg |-> arg, rdy |-> m.ready]

Log(m, op, role, arg) ==
    [m EXCEPT !.trace = Append(@, Call(m, op, role, arg))]

\* a TypeError thrown at `site`; unwinds the running callback
Throw(m, site) ==
    [Log(m, "throw", site, "") EXCEPT !.thrown = TRUE]

credentialsValid(settings) ==
    settings.username # "" /\ settings.password # ""

\* ---------------------------------------------------------------- destroy
\* the client objects that destroy() dropped (the latest of each role): the
\* tmi.js objects live on and may still emit, running the listeners they kept
NoStale == [k \in RoleSet |-> [exists |-> FALSE, listeners |-> NoListeners]]

\* mutant: disconnect() without removeAllListeners()
destroyClientKeepsListeners(m, key) ==
    IF m.clients[key].live
    THEN LET m2 == Log(m, "disconnect", key, "")
         IN  [m2 EXCEPT !.stale[key] = [exists |-> TRUE,
                                        listeners |-> m2.clients[key].listeners],
                        !.clients[key] = NullClient,
                        !.changes = IF key = "read" THEN @ + 1 ELSE @]
    ELSE m

\* mutant: disconnect() is called before removeAllListeners()
destroyClientDisconnectFirst(m, key) ==
    IF m.clients[key].live
    THEN LET m1 == Log(m, "disconnect", key, "")
             m2 == [Log(m1, "removeAllListeners", key, "")
                      EXCEPT !.clients[key].listeners = NoListeners]
         IN  [m2 EXCEPT !.stale[key] = [exists |-> TRUE,
                                        listeners |-> m2.clients[key].listeners],
                        !.clients[key] = NullClient,
                        !.changes = IF key = "read" THEN @ + 1 ELSE @]
    ELSE m

destroyClient(m, key) ==
    IF m.clients[key].live
    THEN LET m1 == [Log(m, "removeAllListeners", key, "")
                      EXCEPT !.clients[key].listeners = NoListeners]
             m2 == Log(m1, "disconnect", key, "")
         IN  [m2 EXCEPT !.stale[key] = [exists |-> TRUE,
                                        listeners |-> m2.clients[key].listeners],
                        !.clients[key] = NullClient,
                        !.changes = IF key = "read" THEN @ + 1 ELSE @]
    ELSE m

\* mutant: only the read client is torn down
destroyReadOnly(m) ==
    destroyClient(Log(m, "destroy", "", ""), Roles[1])

destroy(m) ==
    LET m0 == Log(m, "destroy", "", "")
    IN  destroyClient(destroyClient(destroyClient(m0, Roles[1]), Roles[2]), Roles[3])

\* ----------------------------------------------------------------- create
\* mutant: every listener is added twice
forwardEventsTwice(m, key, events) ==
    [m EXCEPT !.clients[key].listeners =
        [e \in EventNames |->
            IF e \in events THEN Append(Append(@[e], "forward"), "forward") ELSE @[e]]]

forwardEvents(m, key, events) ==
    [m EXCEPT !.clients[key].listeners =
        [e \in EventNames |-> IF e \in events THEN Append(@[e], "forward") ELSE @[e]]]

\* client.on(event, l) / client.once(event, l) on clients[key];
\* a TypeError when clients[key] is null
addListener(m, key, event, l, site) ==
    IF m.clients[key].live
    THEN [m EXCEPT !.clients[key].listeners[event] = Append(@, l)]
    ELSE Throw(m, site)

onlyEmitDisconnectedOnce(m) ==
    addListener(m, "read", "disconnected", "emitOnce", "onlyEmitDisconnectedOnce")

\* mutant: the client is created but connect() is never called
newClientNoConnect(m, key) ==
    LET channels == IF key = "whisper" THEN <<>> ELSE m.settings.channels
        m1 == Log(m, "new", key, "")
    IN  [m1 EXCEPT !.clients[key] =
            [live |-> TRUE, tcCurrentChannels |-> channels,
             connectCalls |-> 0, listeners |-> NoListeners],
                   !.changes = IF key = "read" THEN @ + 1 ELSE @]

\* mutant: no client records the channels it was created with
newClientEmptyChannels(m, key) ==
    LET m1 == Log(m, "new", key, "")
        m2 == [m1 EXCEPT !.clients[key] =
                  [live |-> TRUE, tcCurrentChannels |-> <<>>,
                   connectCalls |-> 0, listeners |-> NoListeners],
                         !.changes = IF key = "read" THEN @ + 1 ELSE @]
        m3 == Log(m2, "connect", key, "")
    IN  [m3 EXCEPT !.clients[key].connectCalls = @ + 1]

newClient(m, key) ==
    LET channels == IF key = "whisper" THEN <<>> ELSE m.settings.channels
        m1 == Log(m, "new", key, "")
        m2 == [m1 EXCEPT !.clients[key] =
                  [live |-> TRUE, tcCurrentChannels |-> channels,
                   connectCalls |-> 0, listeners |-> NoListeners],
                         !.changes = IF key = "read" THEN @ + 1 ELSE @]
        m3 == Log(m2, "connect", key, "")
    IN  [m3 EXCEPT !.clients[key].connectCalls = @ + 1]

\* mutant: ee.badLogin is not reset
createKeepsBadLogin(m) ==
    LET m0 == destroy(Log(m, "create", "", ""))
        m2 == newClient(newClient(newClient(m0, Roles[1]), Roles[2]), Roles[3])
        m3 == forwardEvents(m2, "read", Range(readEvents))
        m4 == forwardEvents(m3, "whisper", {"whisper"})
        m5 == addListener(m4, "read", "disconnected", "setNotReady", "create")
        m6 == addListener(m5, "read", "connected", "setReady", "create")
    IN  onlyEmitDisconnectedOnce(m6)

create(m) ==
    LET m0 == destroy(Log(m, "create", "", ""))
        m1 == [m0 EXCEPT !.badLogin = FalseVal]
        m2 == newClient(newClient(newClient(m1, Roles[1]), Roles[2]), Roles[3])
        m3 == forwardEvents(m2, "read", Range(readEvents))
        m4 == forwardEvents(m3, "whisper", {"whisper"})
        m5 == addListener(m4, "read", "disconnected", "setNotReady", "create")
        m6 == addListener(m5, "read", "connected", "setReady", "create")
    IN  onlyEmitDisconnectedOnce(m6)

\* ----------------------------------------------------------- syncChannels
\* mutant: join() is called but the channel is not recorded as joined
RECURSIVE joinFromNoPush(_, _, _)
joinFromNoPush(m, key, i) ==
    IF i > Len(m.settings.channels) \/ m.thrown THEN m
    ELSE LET channel == m.settings.channels[i]
         IN  IF ~m.clients[key].live THEN Throw(m, "joinChannels")
             ELSE IF NotIn(m.clients[key].tcCurrentChannels, channel)
             THEN joinFromNoPush(Log(m, "join", key, channel), key, i + 1)
             ELSE joinFromNoPush(m, key, i + 1)

RECURSIVE joinFrom(_, _, _)
joinFrom(m, key, i) ==
    IF i > Len(m.settings.channels) \/ m.thrown THEN m
    ELSE LET channel == m.settings.channels[i]
         IN  IF ~m.clients[key].live THEN Throw(m, "joinChannels")
             ELSE IF NotIn(m.clients[key].tcCurrentChannels, channel)
             THEN joinFrom([Log(m, "join", key, channel)
                              EXCEPT !.clients[key].tcCurrentChannels = Append(@, channel)],
                           key, i + 1)
             ELSE joinFrom(m, key, i + 1)

joinChannels(m, key) == joinFrom(m, key, 1)

\* mutant: the loop runs forwards over the array it splices (i counts the
\* steps left; the index does not move back after a removal)
RECURSIVE leaveForwards(_, _, _)
leaveForwards(m, key, i) ==
    LET cur == m.clients[key].tcCurrentChannels
        idx == Len(cur) - i + 1
    IN  IF i < 1 \/ idx < 1 THEN m
        ELSE IF NotIn(m.settings.channels, cur[idx])
        THEN leaveForwards([Log(m, "part", key, cur[idx])
                              EXCEPT !.clients[key].tcCurrentChannels = Splice(@, idx)],
                           key, i - 2)
        ELSE leaveForwards(m, key, i - 1)

RECURSIVE leaveFrom(_, _, _)
leaveFrom(m, key, i) ==
    IF i < 1 THEN m
    ELSE LET channel == m.clients[key].tcCurrentChannels[i]
         IN  IF NotIn(m.settings.channels, channel)
             THEN leaveFrom([Log(m, "part", key, channel)
                               EXCEPT !.clients[key].tcCurrentChannels = Splice(@, i)],
                            key, i - 1)
             ELSE leaveFrom(m, key, i - 1)

leaveChannels(m, key) ==
    IF ~m.clients[key].live THEN Throw(m, "leaveChannels")
    ELSE leaveFrom(m, key, Len(m.clients[key].tcCurrentChannels))

\* mutant: leaveChannels runs before joinChannels
syncClientLeaveFirst(m, key) ==
    LET m1 == leaveChannels(m, key)
    IN  IF m1.thrown THEN m1 ELSE joinChannels(m1, key)

syncClient(m, key) ==
    LET m1 == joinChannels(m, key)
    IN  IF m1.thrown THEN m1 ELSE leaveChannels(m1, key)

\* mutant: only the read client is synchronised
syncChannelsReadOnly(m) ==
    syncClient(Log(m, "syncChannels", "", ""), "read")

syncChannels(m) ==
    LET m0 == Log(m, "syncChannels", "", "")
        m1 == syncClient(m0, "read")
    IN  IF m1.thrown THEN m1 ELSE syncClient(m1, "write")

\* ------------------------------------------------- listeners on a client
nextTick(m) == [m EXCEPT !.ticks = @ + 1]

\* `once` wrapper: the listener is removed from the emitting client before
\* it runs (nothing to remove if that client was destroyed meanwhile)
\* mutant: the listener was added with on() and stays
removeOnceNever(m, key, event, l) == m

removeOnce(m, key, event, l) ==
    IF m.late
    THEN [m EXCEPT !.stale[key].listeners[event] = RemoveListener(@, l)]
    ELSE IF m.clients[key].live
    THEN [m EXCEPT !.clients[key].listeners[event] = RemoveListener(@, l)]
    ELSE m

\* mutant: every reason is taken for a bad login
setNotReadyAnyReason(m, reason) ==
    nextTick([m EXCEPT !.badLogin = reason, !.settings.password = "", !.ready = FALSE])

\* mutant: ee.badLogin is set for every reason
setNotReadyFlagsAnyReason(m, reason) ==
    LET m1 == IF reason = LoginUnsuccessful
              THEN [m EXCEPT !.badLogin = reason, !.settings.password = ""]
              ELSE [m EXCEPT !.badLogin = reason]
    IN  nextTick([m1 EXCEPT !.ready = FALSE])

\* mutant: ee.ready is not cleared
setNotReadyLeavesReady(m, reason) ==
    nextTick(IF reason = LoginUnsuccessful
             THEN [m EXCEPT !.badLogin = reason, !.settings.password = ""]
             ELSE m)

\* create: clients.read.on('disconnected', ...)
setNotReady(m, reason) ==
    LET m1 == IF reason = LoginUnsuccessful
              THEN [m EXCEPT !.badLogin = reason, !.settings.password = ""]
              ELSE m
    IN  nextTick([m1 EXCEPT !.ready = FALSE])

\* create: clients.read.on('connected', ...)
setReady(m) == nextTick([m EXCEPT !.ready = TRUE])

\* mutant: the listener is armed again at once, not on 'connected'
emitOnceRearmNow(m, reason) ==
    onlyEmitDisconnectedOnce(Log(m, "emit", "disconnected", reason))

\* onlyEmitDisconnectedOnce: the once('disconnected') listener
emitOnce(m, reason) ==
    addListener(Log(m, "emit", "disconnected", reason),
                "read", "connected", "rearm", "emitOnce")

\* mutant: the callback cb is not called
badLoginCheckNoCb(m, reason) ==
    IF reason = LoginUnsuccessful
    THEN nextTick([m EXCEPT !.badLogin = reason, !.settings.password = ""])
    ELSE m

\* attachBadLoginCheck: the on('disconnected') listener; cb is destroy
badLoginCheck(m, reason) ==
    IF reason = LoginUnsuccessful
    THEN destroy(nextTick([m EXCEPT !.badLogin = reason, !.settings.password = ""]))
    ELSE m

listener(m, key, event, arg, l) ==
    CASE l = "forward"       -> Log(m, "emit", event, arg)
      [] l = "setNotReady"   -> setNotReady(m, arg)
      [] l = "setReady"      -> setReady(m)
      [] l = "emitOnce"      -> emitOnce(removeOnce(m, key, event, l), arg)
      [] l = "rearm"         -> onlyEmitDisconnectedOnce(removeOnce(m, key, event, l))
      [] l = "badLoginCheck" -> badLoginCheck(m, arg)

\* EventEmitter.emit: the listeners registered when the event is emitted all
\* run, in registration order, until one throws
RECURSIVE runListeners(_, _, _, _, _)
runListeners(m, key, event, arg, ls) ==
    IF ls = <<>> \/ m.thrown THEN m
    ELSE runListeners(listener(m, key, event, arg, Head(ls)), key, event, arg, Tail(ls))

emit(m, key, event, arg) ==
    runListeners(Log(m, "event", key, event), key, event, arg,
                 m.clients[key].listeners[event])

\* the same on a client object that destroy() dropped
emitStale(m, key, event, arg) ==
    runListeners([Log(m, "late", key, event) EXCEPT !.late = TRUE], key, event, arg,
                 m.stale[key].listeners[event])

\* ------------------------------------------------------- public members
\* ee.say, ee.whisper, ee.isMod: a call on clients.write / clients.whisper,
\* a TypeError when that slot is null
say(m, channel, message) ==
    IF m.clients["write"].live THEN Log(m, "say", "write", channel)
    ELSE Throw(m, "say")

whisper(m, username, message) ==
    IF m.clients["whisper"].live THEN Log(m, "whisper", "whisper", username)
    ELSE Throw(m, "whisper")

isMod(m, channel, username) ==
    IF m.clients["write"].live THEN Log(m, "isMod", "write", channel)
    ELSE Throw(m, "isMod")

\* ----------------------------------------------------------- the watchers
\* an error thrown by a callback is reported and the event loop goes on
Caught(m) == [m EXCEPT !.thrown = FALSE]

onValidCredentials(m) ==
    LET valid == credentialsValid(m.settings)
    IN  IF m.credWatch[1] # valid
        THEN LET m1 == [m EXCEPT !.credWatch[1] = valid]
             IN  IF valid THEN create(m1) ELSE m1
        ELSE m

onInvalidCredentials(m) ==
    LET valid == credentialsValid(m.settings)
    IN  IF m.credWatch[2] # valid
        THEN LET m1 == [m EXCEPT !.credWatch[2] = valid]
             IN  IF ~valid THEN destroy(m1) ELSE m1
        ELSE m

onChannelsChange(m) ==
    IF m.chanWatch # m.settings.channels
    THEN syncChannels([m EXCEPT !.chanWatch = m.settings.channels])
    ELSE m

\* $rootScope.$apply(): the watchers in registration order
digest(m) ==
    Caught(onChannelsChange(Caught(onInvalidCredentials(Caught(onValidCredentials(m))))))

RECURSIVE applyTicks(_)
applyTicks(m) ==
    IF m.ticks = 0 THEN m
    ELSE applyTicks(digest([m EXCEPT !.ticks = @ - 1]))

\* onBadLogin: the Object.observe callback over the queued 'read' updates
attachBadLoginCheck(m) ==
    addListener(m, "read", "disconnected", "badLoginCheck", "attachBadLoginCheck")

RECURSIVE forEachChange(_, _)
forEachChange(m, n) ==
    IF n = 0 \/ m.thrown THEN m
    ELSE forEachChange(attachBadLoginCheck(m), n - 1)

observe(m) ==
    [Caught(forEachChange(m, m.changes)) EXCEPT !.changes = 0]

\* what follows a callback before the next task runs
endTask(m) == observe(applyTicks([Caught(m) EXCEPT !.late = FALSE]))

\* ------------------------------------------------------------------ state
VARIABLES
    clients,      \* role -> the tmi client of that role, or NullClient
    ready,        \* ee.ready
    badLogin,     \* ee.badLogin
    settings,     \* identity.username, identity.password, channels
    credWatch,    \* last value seen by each of the two credentialsValid watchers
    chanWatch,    \* last value seen by the settings.channels watcher
    task,         \* the task that ran last
    trace,        \* the calls made by that task, in order
    lastState,    \* the latest of 'connected' / 'disconnected' notified by the
                  \* current read client ("none": no read client, or none yet)
    discRun,      \* 'disconnected' notifications of the read client since it
                  \* was created or last notified 'connected'
    outRun,       \* 'disconnected' events emitted on ee in that time
    sinceConn,    \* 'disconnected' events emitted on ee since the last
                  \* 'connected' event emitted on ee
    hadConn,      \* a 'connected' event was emitted on ee
    createdSince, \* create() ran since the last 'connected' event on ee
    gap,          \* when that task emitted 'connected' on ee and it was not the
                  \* first: the 'disconnected' events on ee since the one before
    sessGap,      \* the same, when no create() ran between the two
    stale,        \* role -> the client object destroy() dropped last
    downSync      \* the latest change of settings.channels came while
                  \* clients.read was null

vars == <<clients, ready, badLogin, settings, credWatch, chanWatch, task, trace,
          lastState, discRun, outRun, sinceConn, hadConn, createdSince, gap, sessGap,
          stale, downSync>>

\* the state a task starts from
Machine ==
    [clients |-> clients, ready |-> ready, badLogin |-> badLogin,
     settings |-> settings, credWatch |-> credWatch, chanWatch |-> chanWatch,
     stale |-> stale, late |-> FALSE,
     changes |-> 0, ticks |-> 0, thrown |-> FALSE, trace |-> <<>>]

Count(tr, op, on) == Cardinality({i \in DOMAIN tr : tr[i].op = op /\ tr[i].on = on})

Task(kind, on, event, arg) == [kind |-> kind, on |-> on, event |-> event, arg |-> arg]

\* the variables after a task that ended in m
Commit(m, t) ==
    LET created == Count(m.trace, "create", "") > 0
        outDisc == Count(m.trace, "emit", "disconnected")
        outConn == Count(m.trace, "emit", "connected") > 0
        readDisc == t.kind = "event" /\ t.on = "read" /\ t.event = "disconnected"
        readConn == t.kind = "event" /\ t.on = "read" /\ t.event = "connected"
    IN  /\ clients' = m.clients
        /\ ready' = m.ready
        /\ badLogin' = m.badLogin
        /\ settings' = m.settings
        /\ credWatch' = m.credWatch
        /\ chanWatch' = m.chanWatch
        /\ task' = t
        /\ trace' = m.trace
        /\ lastState' = IF ~m.clients["read"].live THEN "none"
                        ELSE IF readConn \/ readDisc THEN t.event
                        ELSE IF created THEN "none" ELSE lastState
        /\ discRun' = IF created \/ readConn THEN 0
                      ELSE IF readDisc THEN discRun + 1 ELSE discRun
        /\ outRun' = IF created \/ readConn THEN 0 ELSE outRun + outDisc
        /\ sinceConn' = IF outConn THEN 0 ELSE sinceConn + outDisc
        /\ hadConn' = (hadConn \/ outConn)
        /\ createdSince' = IF outConn THEN FALSE ELSE (createdSince \/ created)
        /\ gap' = IF outConn /\ hadConn THEN sinceConn ELSE 0
        /\ sessGap' = IF outConn /\ hadConn /\ ~createdSince THEN sinceConn ELSE 0
        /\ stale' = m.stale
        /\ downSync' = IF t.kind = "settings" /\ t.on = "channels"
                       THEN ~m.clients["read"].live ELSE downSync

\* ----------------------------------------------------------------- setup
\* the factory function: create() if the credentials are valid, then
\* onBadLogin (which attaches its check to an existing read client) and the
\* registration of the watchers, whose first run records the current values
setup(identityAndChannels) ==
    LET m0 == [clients |-> clientsInit, ready |-> FALSE, badLogin |-> FalseVal,
               settings |-> identityAndChannels,
               credWatch |-> <<credentialsValid(identityAndChannels),
                               credentialsValid(identityAndChannels)>>,
               chanWatch |-> identityAndChannels.channels,
               stale |-> NoStale, late |-> FALSE,
               changes |-> 0, ticks |-> 0, thrown |-> FALSE, trace |-> <<>>]
        m1 == IF credentialsValid(m0.settings) THEN create(m0) ELSE m0
        m2 == IF m1.clients["read"].live THEN attachBadLoginCheck(m1) ELSE m1
    IN  [m2 EXCEPT !.changes = 0]

SettingsSpace ==
    [username : Usernames, password : Passwords, channels : DistinctSeqs(Channels)]

Init ==
    \E s \in SettingsSpace :
        LET m == setup(s)
        IN  /\ clients = m.clients
            /\ ready = m.ready
            /\ badLogin = m.badLogin
            /\ settings = m.settings
            /\ credWatch = m.credWatch
            /\ chanWatch = m.chanWatch
            /\ task = Task("setup", "", "", "")
            /\ trace = m.trace
            /\ lastState = "none"
            /\ discRun = 0
            /\ outRun = 0
            /\ sinceConn = 0
            /\ hadConn = FALSE
            /\ createdSince = FALSE
            /\ gap = 0
            /\ sessGap = 0
            /\ stale = m.stale
            /\ downSync = FALSE

\* ---------------------------------------------------------------- actions
\* the user edits the identity or the channel list; the digest that follows
\* runs the watchers
SetUsername ==
    \E u \in Usernames :
        /\ u # settings.username
        /\ Commit(observe(digest([Machine EXCEPT !.settings.username = u])),
                  Task("settings", "username", "", u))

SetPassword ==
    \E p \in Passwords :
        /\ p # settings.password
        /\ Commit(observe(digest([Machine EXCEPT !.settings.password = p])),
                  Task("settings", "password", "", p))

SetChannels ==
    \E c \in DistinctSeqs(Channels) :
        /\ c # settings.channels
        /\ Commit(observe(digest([Machine EXCEPT !.settings.channels = c])),
                  Task("settings", "channels", "", ""))

\* the read client notifies 'disconnected' with a reason
ReadDisconnected ==
    \E reason \in Reasons :
        /\ clients["read"].live
        /\ discRun < MaxRun
        /\ sinceConn < MaxGap
        /\ Commit(endTask(emit(Machine, "read", "disconnected", reason)),
                  Task("event", "read", "disconnected", reason))

\* the read client notifies 'connected'
ReadConnected ==
    /\ clients["read"].live
    /\ Commit(endTask(emit(Machine, "read", "connected", "")),
              Task("event", "read", "connected", ""))

Next ==
    \/ SetUsername
    \/ SetPassword
    \/ SetChannels
    \/ ReadDisconnected
    \/ ReadConnected

Spec == Init /\ [][Next]_vars

\* ------------------------------------- events, late events, public calls
\* A second specification for what does not depend on the channel list: it
\* starts with the username set and at most one channel, and adds the other
\* events of the three clients, events of dropped client objects and calls of
\* the public members.
EventChannels == {"a"}

EventSettings ==
    [username : {"bob"}, password : Passwords, channels : DistinctSeqs(EventChannels)]

InitEvents ==
    \E s \in EventSettings :
        LET m == setup(s)
        IN  /\ clients = m.clients
            /\ ready = m.ready
            /\ badLogin = m.badLogin
            /\ settings = m.settings
            /\ credWatch = m.credWatch
            /\ chanWatch = m.chanWatch
            /\ task = Task("setup", "", "", "")
            /\ trace = m.trace
            /\ lastState = "none"
            /\ discRun = 0
            /\ outRun = 0
            /\ sinceConn = 0
            /\ hadConn = FALSE
            /\ createdSince = FALSE
            /\ gap = 0
            /\ sessGap = 0
            /\ stale = m.stale
            /\ downSync = FALSE

\* event names and payloads the clients are made to emit
EventInputs ==
    {<<e, "hello">> : e \in EventNames \ {"disconnected"}}
        \cup {<<"chat", "bye">>, <<"disconnected", LoginUnsuccessful>>}

LateInputs ==
    {<<"chat", "hello">>, <<"whisper", "hello">>, <<"connected", "hello">>,
     <<"disconnected", LoginUnsuccessful>>, <<"disconnected", "Connection closed.">>}

\* a live client emits an event (the read client's 'connected' and
\* 'disconnected' are ReadConnected and ReadDisconnected)
ClientEvent ==
    \E key \in RoleSet, ev \in EventInputs :
        /\ clients[key].live
        /\ ~(key = "read" /\ ev[1] \in {"connected", "disconnected"})
        /\ Commit(endTask(emit(Machine, key, ev[1], ev[2])),
                  Task("event", key, ev[1], ev[2]))

\* a client object that destroy() dropped emits an event
LateEvent ==
    \E key \in RoleSet, ev \in LateInputs :
        /\ stale[key].exists
        /\ Commit(endTask(emitStale(Machine, key, ev[1], ev[2])),
                  Task("late", key, ev[1], ev[2]))

\* a consumer calls a public member
Say ==
    \E channel \in Channels :
        Commit(endTask(say(Machine, channel, "hello")),
               Task("call", "say", "", channel))

Whisper ==
    \E username \in Usernames \ {""} :
        Commit(endTask(whisper(Machine, username, "hello")),
               Task("call", "whisper", "", username))

IsMod ==
    \E channel \in Channels :
        Commit(endTask(isMod(Machine, channel, "bob")),
               Task("call", "isMod", "", channel))

NextEvents ==
    \/ SetPassword
    \/ ReadDisconnected
    \/ ReadConnected
    \/ ClientEvent
    \/ LateEvent
    \/ Say
    \/ Whisper
    \/ IsMod

SpecEvents == InitEvents /\ [][NextEvents]_vars

\* ------------------------------------------------------------- properties
Live(k) == clients[k].live
NoneLive == \A k \in RoleSet : ~clients[k].live
AllLive == \A k \in RoleSet : clients[k].live

Args(tr, op, on) == {tr[i].arg : i \in {j \in DOMAIN tr : tr[j].op = op /\ tr[j].on = on}}
Threw(tr) == \E i \in DOMAIN tr : tr[i].op = "throw"

\* C1: when the validity of the credentials changes from valid to invalid no
\* client is left; when it changes from invalid to valid there are three
\* clients, each a new one on which connect() was called exactly once.
C1_CredentialTransition ==
    [][/\ (credentialsValid(settings) /\ ~credentialsValid(settings'))
              => \A k \in RoleSet : ~clients'[k].live
       /\ (~credentialsValid(settings) /\ credentialsValid(settings'))
              => \A k \in RoleSet :
                    /\ clients'[k].live
                    /\ clients'[k].connectCalls = 1
                    /\ Count(trace', "new", k) = 1
                    /\ Count(trace', "connect", k) = 1]_vars

\* the credentials became valid again after an earlier set of clients, which
\* had connected, was destroyed
C1_Witness ==
    /\ task.kind = "settings" /\ task.on \in {"username", "password"}
    /\ Count(trace, "create", "") = 1
    /\ AllLive /\ hadConn /\ createdSince

\* C2: between tasks either all three roles hold a client or none does.
C2_AllOrNone == AllLive \/ NoneLive

\* three live clients were destroyed by the task that just ran
C2_Witness ==
    /\ NoneLive
    /\ \A k \in RoleSet : Count(trace, "disconnect", k) = 1

\* C3: ee.ready is true only while there is a read client whose latest
\* connection-state notification was 'connected'.
C3_ReadyOnlyWhileConnected ==
    ready => (Live("read") /\ lastState = "connected")

\* the failing statement of C3 is reached from valid credentials at setup, a
\* 'connected' notification and a password set to "": see C3 in the results

SyncRoles == {"read", "write"}
ChannelsTask(t) == t.kind = "settings" /\ t.on = "channels"
ReadDisconnectedTask(t) == t.kind = "event" /\ t.on = "read" /\ t.event = "disconnected"

\* C4: syncChannels on a live read or write client with joined channels J and
\* settings.channels D ends with tcCurrentChannels equal to D as a set, after
\* exactly |D \ J| join calls and |J \ D| part calls, none repeated.
C4_SyncChannels ==
    [][\A k \in SyncRoles :
        (ChannelsTask(task') /\ clients[k].live) =>
            LET J == Range(clients[k].tcCurrentChannels)
                D == Range(settings'.channels)
            IN  /\ Range(clients'[k].tcCurrentChannels) = D
                /\ Count(trace', "join", k) = Cardinality(D \ J)
                /\ Count(trace', "part", k) = Cardinality(J \ D)
                /\ Args(trace', "join", k) = D \ J
                /\ Args(trace', "part", k) = J \ D]_vars

\* a sync that had to leave two channels and join another, on both clients
C4_Witness ==
    /\ ChannelsTask(task)
    /\ \A k \in SyncRoles :
        /\ Live(k)
        /\ Count(trace, "part", k) = 2
        /\ Count(trace, "join", k) = 1
        /\ Len(clients[k].tcCurrentChannels) = 1

\* C5: right after syncChannels has run on live clients, running it again
\* with the same settings.channels makes no join and no part call and leaves
\* every tcCurrentChannels as it is.
C5_SyncIdempotent ==
    (ChannelsTask(task) /\ AllLive) =>
        LET again == syncChannels(Machine)
        IN  /\ \A k \in RoleSet :
                /\ Count(again.trace, "join", k) = 0
                /\ Count(again.trace, "part", k) = 0
            /\ again.clients = clients
            /\ ~Threw(again.trace)

\* the first run joined and left channels
C5_Witness ==
    /\ ChannelsTask(task) /\ AllLive
    /\ Count(trace, "join", "read") >= 1
    /\ Count(trace, "part", "read") >= 1
    /\ Count(trace, "join", "write") >= 1

\* C6: in a run of 'disconnected' notifications of one read client with no
\* 'connected' in between, the first is emitted on ee and the others are
\* not, at the start of the client's life and again after each 'connected'.
C6_OneDisconnectedPerRun ==
    /\ discRun >= 1 => outRun = 1
    /\ ReadDisconnectedTask(task) =>
          Count(trace, "emit", "disconnected") = IF discRun = 1 THEN 1 ELSE 0

\* the read client connected, then notified 'disconnected' three times
C6_Witness ==
    /\ Live("read") /\ hadConn /\ ~createdSince
    /\ discRun = 3 /\ outRun = 1 /\ sinceConn = 1

\* C7 as stated: between two consecutive 'connected' events on ee there is at
\* most one 'disconnected' event on ee, create() and destroy() in between
\* included.
C7_AtMostOneDisconnectedBetweenConnected == gap <= 1

\* C7, amended: between two consecutive 'connected' events on ee with no
\* create() in between there is at most one 'disconnected' event on ee.
C7_AtMostOneDisconnectedPerClient == sessGap <= 1

\* a second 'connected' of the same read client after 'disconnected' events
C7_Witness ==
    /\ task.event = "connected" /\ task.on = "read"
    /\ sessGap = 1 /\ gap = 1 /\ hadConn

BadLoginTask(t) == ReadDisconnectedTask(t) /\ t.arg = LoginUnsuccessful

\* C8 as stated: a 'disconnected' of the read client with the reason
\* "Login unsuccessful." sets badLogin to it, empties the password and has
\* destroy() called exactly once, counting the call of the bad login check
\* and the call of the invalid-credentials watcher.
C8_BadLoginDestroysOnce ==
    BadLoginTask(task) =>
        /\ badLogin = LoginUnsuccessful
        /\ settings.password = ""
        /\ Count(trace, "destroy", "") = 1

\* C8, amended: destroy() is called twice, by the bad login check and by the
\* invalid-credentials watcher of the digest that follows, and each client
\* is disconnected once.
C8_BadLoginDestroysTwice ==
    BadLoginTask(task) =>
        /\ badLogin = LoginUnsuccessful
        /\ settings.password = ""
        /\ Count(trace, "destroy", "") = 2
        /\ \A k \in RoleSet : Count(trace, "disconnect", k) = 1
        /\ NoneLive

\* a bad login of a read client that had been connected
C8_Witness ==
    /\ BadLoginTask(task)
    /\ hadConn /\ ~createdSince
    /\ badLogin = LoginUnsuccessful

\* C9: a 'disconnected' of the read client with any other reason sets ready
\* to false and leaves badLogin, the identity, the three clients and their
\* tcCurrentChannels as they are, without a call of destroy().
C9_OtherReasonOnlyClearsReady ==
    [][(ReadDisconnectedTask(task') /\ task'.arg # LoginUnsuccessful) =>
        /\ ready' = FALSE
        /\ badLogin' = badLogin
        /\ settings' = settings
        /\ \A k \in RoleSet :
            /\ clients'[k].live = clients[k].live
            /\ clients'[k].tcCurrentChannels = clients[k].tcCurrentChannels
            /\ clients'[k].connectCalls = clients[k].connectCalls
            /\ Count(trace', "new", k) = 0
            /\ Count(trace', "disconnect", k) = 0
            /\ Count(trace', "removeAllListeners", k) = 0
        /\ Count(trace', "destroy", "") = 0
        /\ Count(trace', "create", "") = 0]_vars

\* a connected read client disconnects with a reason one character short of
\* the bad login reason
C9_Witness ==
    /\ ReadDisconnectedTask(task) /\ task.arg = "Login unsuccessful"
    /\ hadConn /\ ~createdSince /\ discRun = 1
    /\ AllLive /\ ~ready /\ badLogin = FalseVal
    /\ settings.channels # <<>>

\* C10: a change of settings.channels while no client exists makes no join
\* or part call, changes nothing else and raises no error.
C10_SyncWithoutClients ==
    [][(ChannelsTask(task') /\ \A k \in RoleSet : ~clients[k].live) =>
        /\ \A k \in RoleSet :
            Count(trace', "join", k) = 0 /\ Count(trace', "part", k) = 0
        /\ clients' = clients
        /\ ready' = ready
        /\ badLogin' = badLogin
        /\ ~Threw(trace')]_vars

\* C11 as stated: a call of ee.say, ee.whisper or ee.isMod raises no error,
\* whether or not the clients exist.
C11_PublicMembersNeverThrow ==
    task.kind = "call" => ~Threw(trace)

\* the events create() forwards to ee
Forwarded(key, event) ==
    \/ key = "read" /\ event \in Range(readEvents)
    \/ key = "whisper" /\ event = "whisper"

EmitIdx(tr) == {i \in DOMAIN tr : tr[i].op = "emit"}

\* C12: an event of the read list emitted by the read client, or 'whisper'
\* emitted by the whisper client, is emitted on ee exactly once, with the
\* same name and payload, and nothing else is emitted on ee.
C12_PureRelay ==
    (task.kind = "event" /\ Forwarded(task.on, task.event)) =>
        /\ Cardinality(EmitIdx(trace)) = 1
        /\ \A i \in EmitIdx(trace) :
              trace[i].on = task.event /\ trace[i].arg = task.arg

\* 'chat' relayed from a read client created after another was destroyed
C12_Witness ==
    /\ task = Task("event", "read", "chat", "bye")
    /\ stale["read"].exists
    /\ \E i \in DOMAIN trace : trace[i] = [op |-> "emit", on |-> "chat", arg |-> "bye", rdy |-> ready]

ReadConnectedTask(t) == t.kind = "event" /\ t.on = "read" /\ t.event = "connected"

\* C13: after the read client's 'connected' ee.ready is true and ee.badLogin
\* is false.
C13_ConnectedSetsReady ==
    ReadConnectedTask(task) => (ready /\ badLogin = FalseVal)

\* 'connected' of a read client created after two emitted 'disconnected'
C13_Witness ==
    /\ ReadConnectedTask(task)
    /\ ready /\ badLogin = FalseVal
    /\ gap = 2

Idx(tr, op, on) == {i \in DOMAIN tr : tr[i].op = op /\ tr[i].on = on}
Created(tr) == Count(tr, "create", "") > 0

\* C14 as stated: within one syncChannels of a client every part() comes
\* before any join().
C14_PartsBeforeJoins ==
    (ChannelsTask(task) /\ AllLive) =>
        \A k \in SyncRoles :
            \A i \in Idx(trace, "part", k), j \in Idx(trace, "join", k) : i < j

\* C14, amended: within one syncChannels of a client every join() comes
\* before any part(), and the client ends with the channels of
\* settings.channels.
C14_JoinsBeforeParts ==
    (ChannelsTask(task) /\ AllLive) =>
        \A k \in SyncRoles :
            /\ \A i \in Idx(trace, "join", k), j \in Idx(trace, "part", k) : i < j
            /\ Range(clients[k].tcCurrentChannels) = Range(settings.channels)

\* settings.channels became [a, b] on clients joined to b and c: join(a),
\* then part(c)
C14_Witness ==
    /\ ChannelsTask(task) /\ AllLive
    /\ settings.channels = <<"a", "b">>
    /\ \A k \in SyncRoles :
        /\ Args(trace, "join", k) = {"a"}
        /\ Args(trace, "part", k) = {"c"}
        /\ Range(clients[k].tcCurrentChannels) = {"a", "b"}

\* C15 as stated: right after create() the tcCurrentChannels of all three
\* clients are empty.
C15_EmptyAfterCreate ==
    (Created(trace) /\ AllLive) =>
        \A k \in RoleSet : clients[k].tcCurrentChannels = <<>>

\* C15, amended: right after create() the read and the write client hold a
\* copy of settings.channels and the whisper client holds no channel; from
\* then on a client's tcCurrentChannels changes only in syncChannels, and
\* the whisper client's never.
C15_ChannelsCopiedAtCreate ==
    /\ []((Created(trace) /\ AllLive) =>
            /\ clients["read"].tcCurrentChannels = settings.channels
            /\ clients["write"].tcCurrentChannels = settings.channels
            /\ clients["whisper"].tcCurrentChannels = <<>>)
    /\ [][\A k \in RoleSet :
            (clients[k].live /\ clients'[k].live /\ Count(trace', "new", k) = 0
                /\ (~ChannelsTask(task') \/ k = "whisper"))
            => clients'[k].tcCurrentChannels = clients[k].tcCurrentChannels]_vars

\* clients created while settings.channels holds three channels
C15_Witness ==
    /\ task.kind = "settings" /\ task.on = "password"
    /\ Created(trace) /\ AllLive
    /\ Len(settings.channels) = 3
    /\ clients["read"].tcCurrentChannels = settings.channels

\* C16: whenever the clients exist, the read and the write client's
\* tcCurrentChannels hold the channels of settings.channels.
C16_JoinedIsDesired ==
    AllLive =>
        \A k \in SyncRoles :
            Range(clients[k].tcCurrentChannels) = Range(settings.channels)

\* clients created after settings.channels changed without clients
C16_Witness ==
    /\ AllLive /\ Created(trace) /\ downSync
    /\ Len(settings.channels) >= 2
    /\ stale["read"].exists

\* C17: destroy() calls removeAllListeners() and then disconnect() once on
\* each client that exists and clears its slot, leaving the rest of the
\* state as it is; a destroy() without clients, such as a second one, makes
\* no call and changes nothing.
C17_DestroyIdempotent ==
    LET d1 == destroy(Machine)
        d2 == destroy([d1 EXCEPT !.trace = <<>>])
    IN  /\ \A k \in RoleSet :
            /\ Count(d1.trace, "removeAllListeners", k) = IF clients[k].live THEN 1 ELSE 0
            /\ Count(d1.trace, "disconnect", k) = IF clients[k].live THEN 1 ELSE 0
            /\ \A i \in Idx(d1.trace, "disconnect", k) :
                  i - 1 \in Idx(d1.trace, "removeAllListeners", k)
            /\ d1.clients[k] = NullClient
            /\ clients[k].live => d1.stale[k].listeners = NoListeners
        /\ d1.ready = ready /\ d1.badLogin = badLogin /\ d1.settings = settings
        /\ ~d1.thrown /\ ~d2.thrown
        /\ Len(d2.trace) = 1 /\ d2.trace[1].op = "destroy"
        /\ [d2 EXCEPT !.trace = <<>>] = [d1 EXCEPT !.trace = <<>>]
        /\ \A k \in RoleSet :
            /\ Count(trace, "disconnect", k) <= 1
            /\ \A i \in Idx(trace, "disconnect", k) :
                  i - 1 \in Idx(trace, "removeAllListeners", k)

\* a task that called destroy() twice: the second call made no call
C17_Witness ==
    /\ Count(trace, "destroy", "") = 2
    /\ NoneLive
    /\ \A k \in RoleSet : Count(trace, "disconnect", k) = 1
    /\ trace[Len(trace) - 1].op = "destroy"

LateTask(t) == t.kind = "late"

\* C18: an event emitted by a client object after destroy() dropped it
\* changes none of ee.ready, ee.badLogin, the identity and the clients, and
\* nothing is emitted on ee, whether or not newer clients exist.
C18_LateEventsIgnored ==
    [][LateTask(task') =>
        /\ ready' = ready
        /\ badLogin' = badLogin
        /\ settings' = settings
        /\ clients' = clients
        /\ EmitIdx(trace') = {}
        /\ Count(trace', "destroy", "") = 0
        /\ ~Threw(trace')]_vars

\* the dropped read client reports a bad login while newer clients are
\* connected
C18_Witness ==
    /\ task = Task("late", "read", "disconnected", LoginUnsuccessful)
    /\ AllLive /\ ready /\ lastState = "connected"
    /\ settings.password = "x" /\ badLogin = FalseVal

\* C19: between tasks, ee.badLogin other than false implies that no client
\* exists.
C19_BadLoginImpliesNoClients ==
    badLogin # FalseVal => NoneLive

\* the bad login is still shown while the user edits the username
C19_Witness ==
    /\ badLogin = LoginUnsuccessful /\ NoneLive
    /\ task.kind = "settings" /\ task.on = "username"
    /\ settings.password = ""

\* C20 as stated: ee.ready is already true when 'connected' is emitted on
\* ee and already false when 'disconnected' is emitted on ee.
C20_ReadyBeforeEvent ==
    \A i \in EmitIdx(trace) :
        /\ trace[i].on = "connected" => trace[i].rdy
        /\ trace[i].on = "disconnected" => ~trace[i].rdy

\* C20, amended: ee.ready is already false when 'disconnected' is emitted
\* on ee; 'connected' is emitted on ee before ee.ready is set, so that
\* ee.ready still has its former value then and is true only afterwards.
C20_ReadyAfterConnected ==
    [][\A i \in EmitIdx(trace') :
        /\ trace'[i].on = "disconnected" => ~trace'[i].rdy
        /\ trace'[i].on = "connected" => (trace'[i].rdy = ready /\ ready')]_vars

\* a first 'connected': emitted on ee while ee.ready was false
C20_Witness ==
    /\ ReadConnectedTask(task) /\ ready
    /\ \E i \in EmitIdx(trace) : trace[i].on = "connected" /\ ~trace[i].rdy

====
